---- MODULE Spec2Model ----
(***************************************************************************)
(* goqu: the INSERT, UPDATE, DELETE and TRUNCATE dataset builders.         *)
(*                                                                         *)
(* Datasets are Go pointers to dataset structs: the model keeps them in    *)
(* a heap, a sequence of dataset records addressed by index, so that a     *)
(* method which returns its receiver is told apart from one which returns  *)
(* a copy.  SelectDatasets, which InsertDataset.FromQuery reads and        *)
(* writes through a pointer, live in a second heap.                        *)
(***************************************************************************)
EXTENDS Integers, Sequences, FiniteSets, TLC

VARIABLES
    heap,      \* heap[i]: the dataset struct behind pointer i
    selects,   \* selects[s]: the SelectDataset struct behind pointer s
    first,     \* history: first[i] = the first non-nil error given to SetError on
               \* the derivation chain of dataset i (NoErr while there was none)
    last,      \* the most recent call: receiver, arguments, outcome
    threads    \* threads[g]: goroutine g at work on the dataset it shares with
               \* the other one (idle throughout, where there is one client)

vars == <<heap, selects, first, last, threads>>

----------------------------------------------------------------------------
(* Bounds of the model *)

\* datasets the client allocates (constructor result + results of mutators)
MaxObjs == 2
\* mutator calls a fluent chain makes after the constructor
MaxCalls == 3

----------------------------------------------------------------------------
(* Values *)

NoErr == "nil"
Errs == {"e1", "e2"}
ErrArgs == Errs \cup {NoErr}

ErrUnsupportedIntoType == "ErrUnsupportedIntoType"
ErrUnsupportedUpdateTableType == "ErrUnsupportedUpdateTableType"
ErrBadFromArgument == "ErrBadFromArgument"
ErrIncompatibleDialects == "incompatible dialects for INSERT and SELECT"
ErrNoReturnSupport == "dialect does not support RETURNING"

\* an optional clause field: absent, or present with a value
None == <<>>
Some(v) == <<v>>
IsSet(o) == o # <<>>
Val(o) == o[1]

\* the argument lists callers give to the ordered clause fields
AppendLists == {<<"a", "b">>, <<"c">>}
SetLists == AppendLists \cup {<<>>}

\* table arguments by dynamic type (interface{} in Go)
TableArgs ==
    { [kind |-> "string",     name |-> "u"],
      [kind |-> "identifier", name |-> "t"],
      [kind |-> "literal",    name |-> "raw"],
      [kind |-> "int",        name |-> "7"] }

IsExpression(x) == x.kind \in {"identifier", "literal"}

NilFactory == "nil"

----------------------------------------------------------------------------
(* Dialect registry *)

RegisteredDialects == {"default", "postgres", "mysql"}
DialectNames == {"postgres", "mysql", "nosuch"}

\* lookup by name, falling back to the reserved default entry
GetDialect(name) == IF name \in RegisteredDialects THEN name ELSE "default"

\* postgres.DialectOptions: PlaceHolderFragment "$", IncludePlaceholderNum true
PlaceHolderFragment(d) == IF d = "postgres" THEN "$" ELSE "?"
IncludePlaceholderNum(d) == d = "postgres"

SupportsReturn(d) == d # "mysql"

----------------------------------------------------------------------------
(* prepared: three-valued flag *)

preparedNoPreference == "noPreference"
preparedEnabled == "enabled"
preparedDisabled == "disabled"

defaultPrepared == FALSE

preparedFromBool(b) == IF b THEN preparedEnabled ELSE preparedDisabled

PreparedBool(p) ==
    IF p = preparedNoPreference THEN defaultPrepared ELSE p = preparedEnabled

----------------------------------------------------------------------------
(* Expression constructors *)

ParseIdentifier(s) == [kind |-> "identifier", name |-> s]

\* a column list built from the caller's arguments, in argument order
NewColumnListExpression(vals) == vals

NewCommonTableExpression(recursive, name, subquery) ==
    [recursive |-> recursive, name |-> name, subquery |-> subquery]

\* L("ALL")
LiteralAll == [lit |-> TRUE, n |-> 0]
UintLimit(n) == [lit |-> FALSE, n |-> n]

----------------------------------------------------------------------------
(* Clause records (package exp): immutable, every setter returns a new     *)
(* record.  Ordered fields are sequences; optional fields are None/Some.   *)

NewTruncateClauses ==
    [tables |-> None,
     options |-> [Cascade |-> FALSE, Restrict |-> FALSE, Identity |-> ""]]

TC_SetTable(c, tables) == [c EXCEPT !.tables = Some(tables)]
TC_Options(c) == c.options
TC_SetOptions(c, opts) == [c EXCEPT !.options = opts]

NewInsertClauses ==
    [commonTables |-> <<>>, into |-> None, cols |-> None, vals |-> <<>>,
     rows |-> <<>>, from |-> None, returning |-> None, onConflict |-> None,
     alias |-> None]

IC_SetInto(c, into) == [c EXCEPT !.into = Some(into)]
\* SetCols(nil) stores the absent column list
IC_SetCols(c, cols) == [c EXCEPT !.cols = cols]
IC_ColsAppend(c, cols) ==
    [c EXCEPT !.cols = IF IsSet(@) THEN Some(Val(@) \o cols) ELSE Some(cols)]
IC_ValsAppend(c, vals) == [c EXCEPT !.vals = @ \o vals]
IC_SetVals(c, vals) == [c EXCEPT !.vals = vals]
IC_SetRows(c, rows) == [c EXCEPT !.rows = rows]
\* SetOnConflict(nil) stores the absent conflict expression
IC_SetOnConflict(c, conflict) == [c EXCEPT !.onConflict = conflict]
IC_SetAlias(c, alias) == [c EXCEPT !.alias = Some(alias)]

NewUpdateClauses ==
    [commonTables |-> <<>>, table |-> None, setValues |-> None, from |-> None,
     where |-> None, order |-> None, limit |-> None, returning |-> None]

NewDeleteClauses ==
    [commonTables |-> <<>>, from |-> None, where |-> None, order |-> None,
     limit |-> None, returning |-> None]

\* the setters of the fields that InsertClauses, UpdateClauses and
\* DeleteClauses have in common
C_CommonTablesAppend(c, cte) == [c EXCEPT !.commonTables = Append(@, cte)]
C_SetFrom(c, from) == [c EXCEPT !.from = Some(from)]
\* WhereAppend: no expressions, no change; else conjoined after the earlier ones
C_WhereAppend(c, exprs) ==
    IF exprs = <<>> THEN c
    ELSE [c EXCEPT !.where = IF IsSet(@) THEN Some(Val(@) \o exprs) ELSE Some(exprs)]
C_ClearWhere(c) == [c EXCEPT !.where = None]
C_SetOrder(c, order) == [c EXCEPT !.order = Some(order)]
C_OrderAppend(c, order) ==
    IF ~IsSet(c.order) THEN C_SetOrder(c, order)
    ELSE [c EXCEPT !.order = Some(Val(@) \o order)]
C_OrderPrepend(c, order) ==
    IF ~IsSet(c.order) THEN C_SetOrder(c, order)
    ELSE [c EXCEPT !.order = Some(order \o Val(@))]
C_ClearOrder(c) == [c EXCEPT !.order = None]
C_SetLimit(c, limit) == [c EXCEPT !.limit = Some(limit)]
C_ClearLimit(c) == [c EXCEPT !.limit = None]
C_SetReturning(c, cols) == [c EXCEPT !.returning = Some(cols)]

UC_SetTable(c, table) == [c EXCEPT !.table = Some(table)]
UC_SetSetValues(c, values) == [c EXCEPT !.setValues = Some(values)]

----------------------------------------------------------------------------
(* SQLBuilder (package sb): append-only text and parameters with a sticky  *)
(* error.  The text is a sequence of tokens.  calls is history: the        *)
(* dialect renderers invoked on this builder, in order.                    *)

NewSQLBuilder(isPrepared) ==
    [isPrepared |-> isPrepared, buf |-> <<>>, args |-> <<>>, err |-> NoErr,
     argPos |-> 0, calls |-> <<>>]

\* records the first error only
SB_SetError(b, e) == IF b.err = NoErr THEN [b EXCEPT !.err = e] ELSE b

\* a write after an error is a no-op
SB_Write(b, toks) == IF b.err # NoErr THEN b ELSE [b EXCEPT !.buf = @ \o toks]

SB_WriteArg(b, d, v) ==
    IF b.err # NoErr THEN b
    ELSE IF b.isPrepared
         THEN [b EXCEPT
                 !.buf = Append(@, IF IncludePlaceholderNum(d)
                                   THEN PlaceHolderFragment(d) \o ToString(b.argPos + 1)
                                   ELSE PlaceHolderFragment(d)),
                 !.args = Append(@, v),
                 !.argPos = @ + 1]
         ELSE [b EXCEPT !.buf = Append(@, v)]

RECURSIVE SB_WriteArgs(_, _, _)
SB_WriteArgs(b, d, vs) ==
    IF vs = <<>> THEN b ELSE SB_WriteArgs(SB_WriteArg(b, d, Head(vs)), d, Tail(vs))

\* the finished result: with an error, the text and parameters are dropped
SB_ToSQL(b) ==
    IF b.err # NoErr THEN [sql |-> <<>>, args |-> <<>>, err |-> b.err]
    ELSE [sql |-> b.buf, args |-> b.args, err |-> NoErr]

SB_Called(b, d, kind) == [b EXCEPT !.calls = Append(@, [dialect |-> d, kind |-> kind])]

----------------------------------------------------------------------------
(* Dialect renderers: one entry point per statement kind, each writing the *)
(* clauses that are present, in a fixed order, into the SQLBuilder.        *)

RECURSIVE CteTokens(_)
CteTokens(ctes) ==
    IF ctes = <<>> THEN <<>>
    ELSE (IF Head(ctes).recursive THEN <<"WITH RECURSIVE">> ELSE <<"WITH">>)
         \o <<Head(ctes).name>> \o CteTokens(Tail(ctes))

RECURSIVE SB_WriteWhere(_, _, _, _)
SB_WriteWhere(b, d, exprs, sep) ==
    IF exprs = <<>> THEN b
    ELSE SB_WriteWhere(SB_WriteArg(SB_Write(b, <<sep, "id", "=">>), d, Head(exprs)),
                       d, Tail(exprs), "AND")

SB_WriteOptWhere(b, d, where) ==
    IF IsSet(where) THEN SB_WriteWhere(b, d, Val(where), "WHERE") ELSE b

SB_WriteOrder(b, order) ==
    IF IsSet(order) /\ Val(order) # <<>> THEN SB_Write(b, <<"ORDER BY">> \o Val(order))
    ELSE b

SB_WriteLimit(b, limit) ==
    IF ~IsSet(limit) THEN b
    ELSE IF Val(limit).lit THEN SB_Write(b, <<"LIMIT", "ALL">>)
    ELSE SB_Write(b, <<"LIMIT", ToString(Val(limit).n)>>)

SB_WriteReturning(b, d, returning) ==
    IF ~(IsSet(returning) /\ Val(returning) # <<>>) THEN b
    ELSE IF ~SupportsReturn(d) THEN SB_SetError(b, ErrNoReturnSupport)
    ELSE SB_Write(b, <<"RETURNING">> \o Val(returning))

ToTruncateSQL(d, b, c) ==
    LET b0 == SB_Called(b, d, "truncate")
        b1 == SB_Write(b0, <<"TRUNCATE">> \o (IF IsSet(c.tables) THEN Val(c.tables) ELSE <<>>))
        b2 == IF c.options.Cascade THEN SB_Write(b1, <<"CASCADE">>)
              ELSE IF c.options.Restrict THEN SB_Write(b1, <<"RESTRICT">>)
              ELSE b1
    IN  IF c.options.Identity # "" THEN SB_Write(b2, <<c.options.Identity, "IDENTITY">>)
        ELSE b2

\* the nested row source renders itself, under its own dialect
SB_WriteFrom(b, from, sels) ==
    IF from = 0 THEN SB_Write(b, <<"SUBQUERY">>)
    ELSE SB_Write(b, <<"SELECT", sels[from].dialect>>)

ToInsertSQL(d, b, c, sels) ==
    LET b0 == SB_Called(b, d, "insert")
        b1 == SB_Write(b0, CteTokens(c.commonTables) \o <<"INSERT INTO">>
                           \o (IF IsSet(c.into) THEN <<Val(c.into).name>> ELSE <<>>))
        b2 == IF IsSet(c.cols) /\ Val(c.cols) # <<>>
              THEN SB_Write(b1, <<"(">> \o Val(c.cols) \o <<")">>) ELSE b1
        b3 == IF IsSet(c.from) THEN SB_WriteFrom(b2, Val(c.from), sels)
              ELSE IF c.rows # <<>> THEN SB_WriteArgs(SB_Write(b2, <<"VALUES">>), d, c.rows)
              ELSE IF c.vals # <<>> THEN SB_WriteArgs(SB_Write(b2, <<"VALUES">>), d, c.vals)
              ELSE SB_Write(b2, <<"DEFAULT VALUES">>)
        b4 == IF IsSet(c.onConflict) THEN SB_Write(b3, <<"ON CONFLICT", Val(c.onConflict)>>)
              ELSE b3
    IN  SB_WriteReturning(b4, d, c.returning)

ToUpdateSQL(d, b, c) ==
    LET b0 == SB_Called(b, d, "update")
        b1 == SB_Write(b0, CteTokens(c.commonTables) \o <<"UPDATE">>
                           \o (IF IsSet(c.table) THEN <<Val(c.table).name>> ELSE <<>>))
        b2 == IF IsSet(c.setValues)
              THEN SB_WriteArg(SB_Write(b1, <<"SET", "x", "=">>), d, Val(c.setValues))
              ELSE b1
        b3 == IF IsSet(c.from) /\ Val(c.from) # <<>>
              THEN SB_Write(b2, <<"FROM">> \o Val(c.from)) ELSE b2
        b4 == SB_WriteOptWhere(b3, d, c.where)
        b5 == SB_WriteLimit(SB_WriteOrder(b4, c.order), c.limit)
    IN  SB_WriteReturning(b5, d, c.returning)

ToDeleteSQL(d, b, c) ==
    LET b0 == SB_Called(b, d, "delete")
        b1 == SB_Write(b0, CteTokens(c.commonTables) \o <<"DELETE FROM">>
                           \o (IF IsSet(c.from) THEN <<Val(c.from).name>> ELSE <<>>))
        b2 == SB_WriteOptWhere(b1, d, c.where)
        b3 == SB_WriteLimit(SB_WriteOrder(b2, c.order), c.limit)
    IN  SB_WriteReturning(b3, d, c.returning)

----------------------------------------------------------------------------
(* TruncateDataset *)

newTruncateDataset(d, queryFactory) ==
    [kind |-> "truncate", dialect |-> GetDialect(d), clauses |-> NewTruncateClauses,
     isPrepared |-> preparedNoPreference, queryFactory |-> queryFactory,
     err |-> NoErr]

\* variant: the copy starts without the receiver's error
TruncateDataset_copy_DropErr(td, clauses) ==
    [kind |-> "truncate", dialect |-> td.dialect, clauses |-> clauses,
     isPrepared |-> td.isPrepared, queryFactory |-> td.queryFactory,
     err |-> NoErr]

TruncateDataset_copy(td, clauses) ==
    [kind |-> "truncate", dialect |-> td.dialect, clauses |-> clauses,
     isPrepared |-> td.isPrepared, queryFactory |-> td.queryFactory,
     err |-> td.err]

\* the new contents of the receiver; the method returns the receiver itself
TruncateDataset_SetError(td, err) ==
    IF td.err = NoErr THEN [td EXCEPT !.err = err] ELSE td

truncateSQLBuilder(td) ==
    LET buf == NewSQLBuilder(PreparedBool(td.isPrepared))
    IN  IF td.err # NoErr THEN SB_SetError(buf, td.err)
        ELSE ToTruncateSQL(td.dialect, buf, td.clauses)

TruncateDataset_Table(td, table) ==
    TruncateDataset_copy(td, TC_SetTable(td.clauses, NewColumnListExpression(table)))

----------------------------------------------------------------------------
(* InsertDataset *)

newInsertDataset(d, queryFactory) ==
    [kind |-> "insert", dialect |-> GetDialect(d), clauses |-> NewInsertClauses,
     isPrepared |-> preparedNoPreference, queryFactory |-> queryFactory,
     err |-> NoErr]

InsertDataset_copy(id, clauses) ==
    [kind |-> "insert", dialect |-> id.dialect, clauses |-> clauses,
     isPrepared |-> id.isPrepared, queryFactory |-> id.queryFactory,
     err |-> id.err]

\* the new contents of the receiver; the method returns the receiver itself
InsertDataset_SetError(id, err) ==
    IF id.err = NoErr THEN [id EXCEPT !.err = err] ELSE id

insertSQLBuilder(id, sels) ==
    LET buf == NewSQLBuilder(PreparedBool(id.isPrepared))
    IN  IF id.err # NoErr THEN SB_SetError(buf, id.err)
        ELSE ToInsertSQL(id.dialect, buf, id.clauses, sels)

\* a method that can panic yields [panic, ds]: ds is the result when panic = NoErr
Returned(ds) == [panic |-> NoErr, ds |-> ds]
Panicked(e, recv) == [panic |-> e, ds |-> recv]

InsertDataset_Into(id, into) ==
    IF IsExpression(into) THEN Returned(InsertDataset_copy(id, IC_SetInto(id.clauses, into)))
    ELSE IF into.kind = "string"
    THEN Returned(InsertDataset_copy(id, IC_SetInto(id.clauses, ParseIdentifier(into.name))))
    ELSE Panicked(ErrUnsupportedIntoType, id)

\* variant: the SelectDataset's dialect is overwritten without the check
InsertDataset_FromQuery_NoCheck(id, from, sels) ==
    [panic |-> NoErr,
     ds |-> InsertDataset_copy(id, C_SetFrom(id.clauses, from)),
     sels |-> IF from # 0 THEN [sels EXCEPT ![from].dialect = id.dialect] ELSE sels]

\* from: pointer to a SelectDataset in sels, or 0 for another appendable
\* expression.  Yields [panic, ds, sels]: the SelectDataset is written in place.
InsertDataset_FromQuery(id, from, sels) ==
    IF from # 0
    THEN IF sels[from].dialect # GetDialect("default") /\ id.dialect # sels[from].dialect
         THEN [panic |-> ErrIncompatibleDialects, ds |-> id, sels |-> sels]
         ELSE [panic |-> NoErr,
               ds |-> InsertDataset_copy(id, C_SetFrom(id.clauses, from)),
               sels |-> [sels EXCEPT ![from].dialect = id.dialect]]
    ELSE [panic |-> NoErr,
          ds |-> InsertDataset_copy(id, C_SetFrom(id.clauses, from)),
          sels |-> sels]

InsertDataset_OnConflict(id, conflict) ==
    InsertDataset_copy(id, IC_SetOnConflict(id.clauses, conflict))

----------------------------------------------------------------------------
(* UpdateDataset *)

newUpdateDataset(d, queryFactory) ==
    [kind |-> "update", dialect |-> GetDialect(d), clauses |-> NewUpdateClauses,
     isPrepared |-> preparedNoPreference, queryFactory |-> queryFactory,
     err |-> NoErr]

UpdateDataset_copy(ud, clauses) ==
    [kind |-> "update", dialect |-> ud.dialect, clauses |-> clauses,
     isPrepared |-> ud.isPrepared, queryFactory |-> ud.queryFactory,
     err |-> ud.err]

\* variant: the latest error replaces the recorded one
UpdateDataset_SetError_Overwrite(ud, err) == [ud EXCEPT !.err = err]

\* the new contents of the receiver; the method returns the receiver itself
UpdateDataset_SetError(ud, err) ==
    IF ud.err = NoErr THEN [ud EXCEPT !.err = err] ELSE ud

updateSQLBuilder(ud) ==
    LET buf == NewSQLBuilder(PreparedBool(ud.isPrepared))
    IN  IF ud.err # NoErr THEN SB_SetError(buf, ud.err)
        ELSE ToUpdateSQL(ud.dialect, buf, ud.clauses)

\* variant: a dataset that carries an error is returned before the argument is looked at
UpdateDataset_Table_ErrFirst(ud, table) ==
    IF ud.err # NoErr THEN Returned(UpdateDataset_copy(ud, ud.clauses))
    ELSE IF IsExpression(table) THEN Returned(UpdateDataset_copy(ud, UC_SetTable(ud.clauses, table)))
    ELSE IF table.kind = "string"
    THEN Returned(UpdateDataset_copy(ud, UC_SetTable(ud.clauses, ParseIdentifier(table.name))))
    ELSE Panicked(ErrUnsupportedUpdateTableType, ud)

UpdateDataset_Table(ud, table) ==
    IF IsExpression(table) THEN Returned(UpdateDataset_copy(ud, UC_SetTable(ud.clauses, table)))
    ELSE IF table.kind = "string"
    THEN Returned(UpdateDataset_copy(ud, UC_SetTable(ud.clauses, ParseIdentifier(table.name))))
    ELSE Panicked(ErrUnsupportedUpdateTableType, ud)

----------------------------------------------------------------------------
(* DeleteDataset *)

newDeleteDataset(d, queryFactory) ==
    [kind |-> "delete", dialect |-> GetDialect(d), clauses |-> NewDeleteClauses,
     isPrepared |-> preparedNoPreference, queryFactory |-> queryFactory,
     err |-> NoErr]

DeleteDataset_copy(dd, clauses) ==
    [kind |-> "delete", dialect |-> dd.dialect, clauses |-> clauses,
     isPrepared |-> dd.isPrepared, queryFactory |-> dd.queryFactory,
     err |-> dd.err]

\* the new contents of the receiver; the method returns the receiver itself
DeleteDataset_SetError(dd, err) ==
    IF dd.err = NoErr THEN [dd EXCEPT !.err = err] ELSE dd

\* variant: the dialect renders also when the dataset carries an error
deleteSQLBuilder_AlwaysRender(dd) ==
    LET buf == NewSQLBuilder(PreparedBool(dd.isPrepared))
    IN  ToDeleteSQL(dd.dialect,
                    IF dd.err # NoErr THEN SB_SetError(buf, dd.err) ELSE buf,
                    dd.clauses)

deleteSQLBuilder(dd) ==
    LET buf == NewSQLBuilder(PreparedBool(dd.isPrepared))
    IN  IF dd.err # NoErr THEN SB_SetError(buf, dd.err)
        ELSE ToDeleteSQL(dd.dialect, buf, dd.clauses)

\* variant: any expression is accepted, as Into and Table do
DeleteDataset_From_AnyExpression(dd, table) ==
    IF IsExpression(table) THEN Returned(DeleteDataset_copy(dd, C_SetFrom(dd.clauses, table)))
    ELSE IF table.kind = "string"
    THEN Returned(DeleteDataset_copy(dd, C_SetFrom(dd.clauses, ParseIdentifier(table.name))))
    ELSE Panicked(ErrBadFromArgument, dd)

DeleteDataset_From(dd, table) ==
    IF table.kind = "identifier" THEN Returned(DeleteDataset_copy(dd, C_SetFrom(dd.clauses, table)))
    ELSE IF table.kind = "string"
    THEN Returned(DeleteDataset_copy(dd, C_SetFrom(dd.clauses, ParseIdentifier(table.name))))
    ELSE Panicked(ErrBadFromArgument, dd)

----------------------------------------------------------------------------
(* Methods the four datasets carry with the same body *)

CopyOf(ds, clauses) ==
    CASE ds.kind = "truncate" -> TruncateDataset_copy(ds, clauses)
      [] ds.kind = "insert"   -> InsertDataset_copy(ds, clauses)
      [] ds.kind = "update"   -> UpdateDataset_copy(ds, clauses)
      [] ds.kind = "delete"   -> DeleteDataset_copy(ds, clauses)

Dataset_WithDialect(ds, dl) == [CopyOf(ds, ds.clauses) EXCEPT !.dialect = GetDialect(dl)]

Dataset_SetDialect(ds, dialect) == [CopyOf(ds, ds.clauses) EXCEPT !.dialect = dialect]

Dataset_Prepared(ds, prepared) ==
    [CopyOf(ds, ds.clauses) EXCEPT !.isPrepared = preparedFromBool(prepared)]

SetErrorOf(ds, err) ==
    CASE ds.kind = "truncate" -> TruncateDataset_SetError(ds, err)
      [] ds.kind = "insert"   -> InsertDataset_SetError(ds, err)
      [] ds.kind = "update"   -> UpdateDataset_SetError(ds, err)
      [] ds.kind = "delete"   -> DeleteDataset_SetError(ds, err)

ErrorOf(ds) == ds.err

SQLBuilderOf(ds, sels) ==
    CASE ds.kind = "truncate" -> truncateSQLBuilder(ds)
      [] ds.kind = "insert"   -> insertSQLBuilder(ds, sels)
      [] ds.kind = "update"   -> updateSQLBuilder(ds)
      [] ds.kind = "delete"   -> deleteSQLBuilder(ds)

ToSQLOf(ds, sels) == SB_ToSQL(SQLBuilderOf(ds, sels))

----------------------------------------------------------------------------
(* State *)

Kinds == {"truncate", "insert", "update", "delete"}

NoTable == [kind |-> "none", name |-> ""]

\* the record of a call, before its fields are filled in
NoCall(ds) ==
    [op |-> "new", recv |-> 0, before |-> ds, result |-> 0, panic |-> NoErr,
     tab |-> NoTable, err |-> NoErr, sel |-> 0, selDialect |-> "", list |-> <<>>,
     n |-> 0, sqlBefore |-> SB_ToSQL(NewSQLBuilder(FALSE)),
     given |-> NewSQLBuilder(FALSE),
     sb |-> NewSQLBuilder(FALSE), out |-> SB_ToSQL(NewSQLBuilder(FALSE))]

\* the dataset a database of dialect d hands out for table "t":
\* newXDataset(d, nil) followed by the table method, as in Insert(table)
Construct(kind, d) ==
    CASE kind = "truncate" -> TruncateDataset_Table(newTruncateDataset(d, NilFactory), <<"t">>)
      [] kind = "insert" ->
            InsertDataset_Into(newInsertDataset(d, NilFactory), [kind |-> "string", name |-> "t"]).ds
      [] kind = "update" ->
            UpdateDataset_Table(newUpdateDataset(d, NilFactory), [kind |-> "string", name |-> "t"]).ds
      [] kind = "delete" ->
            DeleteDataset_From(newDeleteDataset(d, NilFactory), [kind |-> "string", name |-> "t"]).ds

\* two SelectDatasets: one whose dialect was never set, one set to postgres
InitSelects == <<[dialect |-> GetDialect("default")], [dialect |-> GetDialect("postgres")]>>

\* the goroutines that share a dataset
Threads == {"g1", "g2"}

\* pc: "idle", or "write" between the test and the assignment of SetError;
\* arg: the error given to that SetError; seen: what the goroutine last read
\* from the shared dataset, while it made no call of its own since
Idle == [pc |-> "idle", arg |-> NoErr, seen |-> None]

InitWith(kind, d) ==
    /\ threads = [g \in Threads |-> Idle]
    /\ heap = <<Construct(kind, d)>>
    /\ selects = InitSelects
    /\ first = <<NoErr>>
    /\ last = NoCall(Construct(kind, d))

Init == \E kind \in Kinds, d \in RegisteredDialects : InitWith(kind, d)

----------------------------------------------------------------------------
(* Calls *)

Receiver(i, kind) == i \in DOMAIN heap /\ heap[i].kind = kind

\* before, sqlBefore: the receiver and what it renders, as the call starts
Called(i, op, info) ==
    [info EXCEPT !.op = op, !.recv = i, !.before = heap[i],
                 !.sqlBefore = ToSQLOf(heap[i], selects)]

Info == NoCall(heap[1])

\* the call returns a pointer to a new dataset
Returns(i, op, info, ds) ==
    /\ heap' = Append(heap, ds)
    /\ first' = Append(first, first[i])
    /\ last' = [Called(i, op, info) EXCEPT !.result = Len(heap) + 1]
    /\ UNCHANGED <<selects, threads>>

\* the call panics: nothing is returned
Panics(i, op, info, e) ==
    /\ last' = [Called(i, op, info) EXCEPT !.panic = e]
    /\ UNCHANGED <<heap, first, selects, threads>>

Outcome(i, op, info, r) ==
    IF r.panic # NoErr THEN Panics(i, op, info, r.panic) ELSE Returns(i, op, info, r.ds)

Limits == {0, 1, 2}

(* methods of all four datasets *)

WithDialect(i) ==
    \E dl \in DialectNames :
        /\ i \in DOMAIN heap
        /\ Returns(i, "WithDialect", Info, Dataset_WithDialect(heap[i], dl))

SetDialect(i) ==
    \E dialect \in {"default", "mysql"} :
        /\ i \in DOMAIN heap
        /\ Returns(i, "SetDialect", Info, Dataset_SetDialect(heap[i], dialect))

Prepared(i) ==
    \E prepared \in BOOLEAN :
        /\ i \in DOMAIN heap
        /\ Returns(i, "Prepared", Info, Dataset_Prepared(heap[i], prepared))

\* SetError writes the receiver's err field and returns the receiver
SetError(i) ==
    \E err \in ErrArgs :
        /\ i \in DOMAIN heap
        /\ heap' = [heap EXCEPT ![i] = SetErrorOf(heap[i], err)]
        /\ first' = [first EXCEPT ![i] = IF @ = NoErr THEN err ELSE @]
        /\ last' = [Called(i, "SetError", [Info EXCEPT !.err = err]) EXCEPT !.result = i]
        /\ UNCHANGED <<selects, threads>>

\* variant: an error of the render is kept on the dataset
ToSQL_Sticky(i) ==
    /\ i \in DOMAIN heap
    /\ last' = [Called(i, "ToSQL", Info) EXCEPT
                  !.sb = SQLBuilderOf(heap[i], selects),
                  !.out = ToSQLOf(heap[i], selects)]
    /\ heap' = [heap EXCEPT ![i].err = ToSQLOf(heap[i], selects).err]
    /\ UNCHANGED <<first, selects, threads>>

ToSQL(i) ==
    /\ i \in DOMAIN heap
    /\ last' = [Called(i, "ToSQL", Info) EXCEPT
                  !.sb = SQLBuilderOf(heap[i], selects),
                  !.out = ToSQLOf(heap[i], selects)]
    /\ UNCHANGED <<heap, first, selects, threads>>

\* variant: only the sticky error of the dataset aborts the caller
MustToSQL_StickyOnly(i) ==
    LET buf == SQLBuilderOf(heap[i], selects)
        call == [Called(i, "MustToSQL", Info) EXCEPT !.sb = buf]
    IN  /\ i \in DOMAIN heap
        /\ last' = IF heap[i].err # NoErr
                   THEN [call EXCEPT !.panic = SB_ToSQL(buf).err]
                   ELSE [call EXCEPT !.out = SB_ToSQL(buf)]
        /\ UNCHANGED <<heap, first, selects, threads>>

\* sql, params, err = xSQLBuilder().ToSQL(); panic(err) if err is not nil
MustToSQL(i) ==
    LET buf == SQLBuilderOf(heap[i], selects)
        call == [Called(i, "MustToSQL", Info) EXCEPT !.sb = buf]
    IN  /\ i \in DOMAIN heap
        /\ last' = IF SB_ToSQL(buf).err # NoErr
                   THEN [call EXCEPT !.panic = SB_ToSQL(buf).err]
                   ELSE [call EXCEPT !.out = SB_ToSQL(buf)]
        /\ UNCHANGED <<heap, first, selects, threads>>

\* the SQLBuilders a statement hands to AppendSQL of a statement it embeds:
\* it has written the opening of a common table expression, in literal or
\* in prepared mode, or it has failed before it came to the embedded one
GivenBuilders ==
    {SB_Write(NewSQLBuilder(FALSE), <<"WITH", "x", "AS", "(">>),
     SB_Write(NewSQLBuilder(TRUE), <<"WITH", "x", "AS", "(">>),
     SB_SetError(SB_Write(NewSQLBuilder(FALSE), <<"WITH">>), "e2")}

\* variant: the statement is rendered into a SQLBuilder of its own
AppendSQL_OwnBuilder(i) ==
    \E b \in GivenBuilders :
        LET ds == heap[i]
        IN  /\ i \in DOMAIN heap
            /\ ds.kind \in {"insert", "update", "delete"}
            /\ last' = [Called(i, "AppendSQL", [Info EXCEPT !.given = b]) EXCEPT
                          !.sb = SQLBuilderOf(ds, selects)]
            /\ UNCHANGED <<heap, first, selects, threads>>

\* AppendSQL(b) of InsertDataset, UpdateDataset and DeleteDataset; sb is the
\* supplied SQLBuilder as the call leaves it
AppendSQL(i) ==
    \E b \in GivenBuilders :
        LET ds == heap[i]
        IN  /\ i \in DOMAIN heap
            /\ ds.kind \in {"insert", "update", "delete"}
            /\ last' = [Called(i, "AppendSQL", [Info EXCEPT !.given = b]) EXCEPT
                          !.sb = IF ds.err # NoErr THEN SB_SetError(b, ds.err)
                                 ELSE CASE ds.kind = "insert" ->
                                             ToInsertSQL(ds.dialect, b, ds.clauses, selects)
                                        [] ds.kind = "update" ->
                                             ToUpdateSQL(ds.dialect, b, ds.clauses)
                                        [] ds.kind = "delete" ->
                                             ToDeleteSQL(ds.dialect, b, ds.clauses)]
            /\ UNCHANGED <<heap, first, selects, threads>>

\* the query factory of a dataset that a database handed out
DbFactory == "db"

\* a method call on the nil queryFactory of a dataset made by Insert(table),
\* Update(table), Delete(table) or Truncate(table)
ErrNilFactory == "runtime error: invalid memory address or nil pointer dereference"

\* queryFactory.FromSQLBuilder(xSQLBuilder()): sb is the SQLBuilder that the
\* executor is given
Executor(i) ==
    /\ i \in DOMAIN heap
    /\ last' = IF heap[i].queryFactory = NilFactory
               THEN [Called(i, "Executor", Info) EXCEPT !.panic = ErrNilFactory]
               ELSE [Called(i, "Executor", Info) EXCEPT
                       !.sb = SQLBuilderOf(heap[i], selects)]
    /\ UNCHANGED <<heap, first, selects, threads>>

(* TruncateDataset *)

Truncate_Table(i) ==
    \E table \in AppendLists :
        /\ Receiver(i, "truncate")
        /\ Returns(i, "Table", [Info EXCEPT !.list = table],
                   TruncateDataset_Table(heap[i], table))

Truncate_Cascade(i) ==
    LET td == heap[i]
        opts == [TC_Options(td.clauses) EXCEPT !.Cascade = TRUE]
    IN  /\ Receiver(i, "truncate")
        /\ Returns(i, "Cascade", Info, TruncateDataset_copy(td, TC_SetOptions(td.clauses, opts)))

Truncate_NoCascade(i) ==
    LET td == heap[i]
        opts == [TC_Options(td.clauses) EXCEPT !.Cascade = FALSE]
    IN  /\ Receiver(i, "truncate")
        /\ Returns(i, "NoCascade", Info, TruncateDataset_copy(td, TC_SetOptions(td.clauses, opts)))

Truncate_Restrict(i) ==
    LET td == heap[i]
        opts == [TC_Options(td.clauses) EXCEPT !.Restrict = TRUE]
    IN  /\ Receiver(i, "truncate")
        /\ Returns(i, "Restrict", Info, TruncateDataset_copy(td, TC_SetOptions(td.clauses, opts)))

Truncate_NoRestrict(i) ==
    LET td == heap[i]
        opts == [TC_Options(td.clauses) EXCEPT !.Restrict = FALSE]
    IN  /\ Receiver(i, "truncate")
        /\ Returns(i, "NoRestrict", Info, TruncateDataset_copy(td, TC_SetOptions(td.clauses, opts)))

\* variant: the options start from those of an empty clause record
Truncate_Identity_Fresh(i) ==
    \E identity \in {"RESTART", "CONTINUE"} :
        LET td == heap[i]
            opts == [TC_Options(NewTruncateClauses) EXCEPT !.Identity = identity]
        IN  /\ Receiver(i, "truncate")
            /\ Returns(i, "Identity", [Info EXCEPT !.list = <<identity>>],
                       TruncateDataset_copy(td, TC_SetOptions(td.clauses, opts)))

Truncate_Identity(i) ==
    \E identity \in {"RESTART", "CONTINUE"} :
        LET td == heap[i]
            opts == [TC_Options(td.clauses) EXCEPT !.Identity = identity]
        IN  /\ Receiver(i, "truncate")
            /\ Returns(i, "Identity", [Info EXCEPT !.list = <<identity>>],
                       TruncateDataset_copy(td, TC_SetOptions(td.clauses, opts)))

(* InsertDataset *)

Insert_With(i) ==
    \E name \in {"a", "b"} :
        LET id == heap[i]
        IN  /\ Receiver(i, "insert")
            /\ Returns(i, "With", [Info EXCEPT !.list = <<name>>],
                       InsertDataset_copy(id, C_CommonTablesAppend(id.clauses,
                           NewCommonTableExpression(FALSE, name, "q"))))

Insert_WithRecursive(i) ==
    \E name \in {"c"} :
        LET id == heap[i]
        IN  /\ Receiver(i, "insert")
            /\ Returns(i, "WithRecursive", [Info EXCEPT !.list = <<name>>],
                       InsertDataset_copy(id, C_CommonTablesAppend(id.clauses,
                           NewCommonTableExpression(TRUE, name, "q"))))

Insert_Into(i) ==
    \E into \in TableArgs :
        /\ Receiver(i, "insert")
        /\ Outcome(i, "Into", [Info EXCEPT !.tab = into], InsertDataset_Into(heap[i], into))

Insert_Cols(i) ==
    \E cols \in SetLists :
        LET id == heap[i]
        IN  /\ Receiver(i, "insert")
            /\ Returns(i, "Cols", [Info EXCEPT !.list = cols],
                       InsertDataset_copy(id, IC_SetCols(id.clauses, Some(NewColumnListExpression(cols)))))

\* variant: the columns are replaced by an empty list
Insert_ClearCols_Empty(i) ==
    LET id == heap[i]
    IN  /\ Receiver(i, "insert")
        /\ Returns(i, "ClearCols", Info,
                   InsertDataset_copy(id, IC_SetCols(id.clauses, Some(<<>>))))

Insert_ClearCols(i) ==
    LET id == heap[i]
    IN  /\ Receiver(i, "insert")
        /\ Returns(i, "ClearCols", Info,
                   InsertDataset_copy(id, IC_SetCols(id.clauses, None)))

Insert_ColsAppend(i) ==
    \E cols \in AppendLists :
        LET id == heap[i]
        IN  /\ Receiver(i, "insert")
            /\ Returns(i, "ColsAppend", [Info EXCEPT !.list = cols],
                       InsertDataset_copy(id, IC_ColsAppend(id.clauses, NewColumnListExpression(cols))))

Insert_FromQuery(i) ==
    \E from \in {0} \cup DOMAIN selects :
        LET r == InsertDataset_FromQuery(heap[i], from, selects)
            info == [Info EXCEPT !.sel = from,
                                 !.selDialect = IF from = 0 THEN "" ELSE selects[from].dialect]
        IN  /\ Receiver(i, "insert")
            /\ IF r.panic # NoErr
               THEN Panics(i, "FromQuery", info, r.panic)
               ELSE /\ heap' = Append(heap, r.ds)
                    /\ first' = Append(first, first[i])
                    /\ selects' = r.sels
                    /\ last' = [Called(i, "FromQuery", info) EXCEPT !.result = Len(heap) + 1]
                    /\ UNCHANGED threads

Insert_Vals(i) ==
    \E vals \in AppendLists :
        LET id == heap[i]
        IN  /\ Receiver(i, "insert")
            /\ Returns(i, "Vals", [Info EXCEPT !.list = vals],
                       InsertDataset_copy(id, IC_ValsAppend(id.clauses, vals)))

Insert_ClearVals(i) ==
    LET id == heap[i]
    IN  /\ Receiver(i, "insert")
        /\ Returns(i, "ClearVals", Info,
                   InsertDataset_copy(id, IC_SetVals(id.clauses, <<>>)))

Insert_Rows(i) ==
    \E rows \in AppendLists :
        LET id == heap[i]
        IN  /\ Receiver(i, "insert")
            /\ Returns(i, "Rows", [Info EXCEPT !.list = rows],
                       InsertDataset_copy(id, IC_SetRows(id.clauses, rows)))

Insert_ClearRows(i) ==
    LET id == heap[i]
    IN  /\ Receiver(i, "insert")
        /\ Returns(i, "ClearRows", Info,
                   InsertDataset_copy(id, IC_SetRows(id.clauses, <<>>)))

Insert_Returning(i) ==
    \E returning \in {<<"a", "b">>} :
        LET id == heap[i]
        IN  /\ Receiver(i, "insert")
            /\ Returns(i, "Returning", [Info EXCEPT !.list = returning],
                       InsertDataset_copy(id, C_SetReturning(id.clauses, NewColumnListExpression(returning))))

Insert_OnConflict(i) ==
    \E conflict \in {Some("DO NOTHING")} :
        LET id == heap[i]
        IN  /\ Receiver(i, "insert")
            /\ Returns(i, "OnConflict", Info,
                       InsertDataset_OnConflict(id, conflict))

Insert_ClearOnConflict(i) ==
    LET id == heap[i]
    IN  /\ Receiver(i, "insert")
        /\ Returns(i, "ClearOnConflict", Info,
                   InsertDataset_OnConflict(id, None))

Insert_As(i) ==
    \E alias \in {"x"} :
        LET id == heap[i]
        IN  /\ Receiver(i, "insert")
            /\ Returns(i, "As", Info,
                       InsertDataset_copy(id, IC_SetAlias(id.clauses, alias)))

(* UpdateDataset *)

Update_With(i) ==
    \E name \in {"a", "b"} :
        LET ud == heap[i]
        IN  /\ Receiver(i, "update")
            /\ Returns(i, "With", [Info EXCEPT !.list = <<name>>],
                       UpdateDataset_copy(ud, C_CommonTablesAppend(ud.clauses,
                           NewCommonTableExpression(FALSE, name, "q"))))

Update_WithRecursive(i) ==
    \E name \in {"c"} :
        LET ud == heap[i]
        IN  /\ Receiver(i, "update")
            /\ Returns(i, "WithRecursive", [Info EXCEPT !.list = <<name>>],
                       UpdateDataset_copy(ud, C_CommonTablesAppend(ud.clauses,
                           NewCommonTableExpression(TRUE, name, "q"))))

Update_Table(i) ==
    \E table \in TableArgs :
        /\ Receiver(i, "update")
        /\ Outcome(i, "Table", [Info EXCEPT !.tab = table], UpdateDataset_Table(heap[i], table))

Update_Set(i) ==
    \E values \in {"a"} :
        LET ud == heap[i]
        IN  /\ Receiver(i, "update")
            /\ Returns(i, "Set", Info,
                       UpdateDataset_copy(ud, UC_SetSetValues(ud.clauses, values)))

Update_From(i) ==
    \E tables \in {<<"a", "b">>} :
        LET ud == heap[i]
        IN  /\ Receiver(i, "update")
            /\ Returns(i, "From", [Info EXCEPT !.list = tables],
                       UpdateDataset_copy(ud, C_SetFrom(ud.clauses, NewColumnListExpression(tables))))

Update_Where(i) ==
    \E expressions \in SetLists :
        LET ud == heap[i]
        IN  /\ Receiver(i, "update")
            /\ Returns(i, "Where", [Info EXCEPT !.list = expressions],
                       UpdateDataset_copy(ud, C_WhereAppend(ud.clauses, expressions)))

Update_ClearWhere(i) ==
    LET ud == heap[i]
    IN  /\ Receiver(i, "update")
        /\ Returns(i, "ClearWhere", Info,
                   UpdateDataset_copy(ud, C_ClearWhere(ud.clauses)))

Update_Order(i) ==
    \E order \in SetLists :
        LET ud == heap[i]
        IN  /\ Receiver(i, "update")
            /\ Returns(i, "Order", [Info EXCEPT !.list = order],
                       UpdateDataset_copy(ud, C_SetOrder(ud.clauses, order)))

Update_OrderAppend(i) ==
    \E order \in AppendLists :
        LET ud == heap[i]
        IN  /\ Receiver(i, "update")
            /\ Returns(i, "OrderAppend", [Info EXCEPT !.list = order],
                       UpdateDataset_copy(ud, C_OrderAppend(ud.clauses, order)))

Update_OrderPrepend(i) ==
    \E order \in AppendLists :
        LET ud == heap[i]
        IN  /\ Receiver(i, "update")
            /\ Returns(i, "OrderPrepend", [Info EXCEPT !.list = order],
                       UpdateDataset_copy(ud, C_OrderPrepend(ud.clauses, order)))

Update_ClearOrder(i) ==
    LET ud == heap[i]
    IN  /\ Receiver(i, "update")
        /\ Returns(i, "ClearOrder", Info,
                   UpdateDataset_copy(ud, C_ClearOrder(ud.clauses)))

Update_Limit(i) ==
    \E limit \in Limits :
        LET ud == heap[i]
        IN  /\ Receiver(i, "update")
            /\ Returns(i, "Limit", [Info EXCEPT !.n = limit],
                       IF limit > 0 THEN UpdateDataset_copy(ud, C_SetLimit(ud.clauses, UintLimit(limit)))
                       ELSE UpdateDataset_copy(ud, C_ClearLimit(ud.clauses)))

Update_LimitAll(i) ==
    LET ud == heap[i]
    IN  /\ Receiver(i, "update")
        /\ Returns(i, "LimitAll", Info,
                   UpdateDataset_copy(ud, C_SetLimit(ud.clauses, LiteralAll)))

Update_ClearLimit(i) ==
    LET ud == heap[i]
    IN  /\ Receiver(i, "update")
        /\ Returns(i, "ClearLimit", Info,
                   UpdateDataset_copy(ud, C_ClearLimit(ud.clauses)))

Update_Returning(i) ==
    \E returning \in {<<"a", "b">>} :
        LET ud == heap[i]
        IN  /\ Receiver(i, "update")
            /\ Returns(i, "Returning", [Info EXCEPT !.list = returning],
                       UpdateDataset_copy(ud, C_SetReturning(ud.clauses, NewColumnListExpression(returning))))

(* DeleteDataset *)

Delete_With(i) ==
    \E name \in {"a", "b"} :
        LET dd == heap[i]
        IN  /\ Receiver(i, "delete")
            /\ Returns(i, "With", [Info EXCEPT !.list = <<name>>],
                       DeleteDataset_copy(dd, C_CommonTablesAppend(dd.clauses,
                           NewCommonTableExpression(FALSE, name, "q"))))

Delete_WithRecursive(i) ==
    \E name \in {"c"} :
        LET dd == heap[i]
        IN  /\ Receiver(i, "delete")
            /\ Returns(i, "WithRecursive", [Info EXCEPT !.list = <<name>>],
                       DeleteDataset_copy(dd, C_CommonTablesAppend(dd.clauses,
                           NewCommonTableExpression(TRUE, name, "q"))))

Delete_From(i) ==
    \E table \in TableArgs :
        /\ Receiver(i, "delete")
        /\ Outcome(i, "From", [Info EXCEPT !.tab = table], DeleteDataset_From(heap[i], table))

Delete_Where(i) ==
    \E expressions \in SetLists :
        LET dd == heap[i]
        IN  /\ Receiver(i, "delete")
            /\ Returns(i, "Where", [Info EXCEPT !.list = expressions],
                       DeleteDataset_copy(dd, C_WhereAppend(dd.clauses, expressions)))

Delete_ClearWhere(i) ==
    LET dd == heap[i]
    IN  /\ Receiver(i, "delete")
        /\ Returns(i, "ClearWhere", Info,
                   DeleteDataset_copy(dd, C_ClearWhere(dd.clauses)))

Delete_Order(i) ==
    \E order \in SetLists :
        LET dd == heap[i]
        IN  /\ Receiver(i, "delete")
            /\ Returns(i, "Order", [Info EXCEPT !.list = order],
                       DeleteDataset_copy(dd, C_SetOrder(dd.clauses, order)))

\* variant: the new columns replace the current order
Delete_OrderAppend_Replace(i) ==
    \E order \in AppendLists :
        LET dd == heap[i]
        IN  /\ Receiver(i, "delete")
            /\ Returns(i, "OrderAppend", [Info EXCEPT !.list = order],
                       DeleteDataset_copy(dd, C_SetOrder(dd.clauses, order)))

Delete_OrderAppend(i) ==
    \E order \in AppendLists :
        LET dd == heap[i]
        IN  /\ Receiver(i, "delete")
            /\ Returns(i, "OrderAppend", [Info EXCEPT !.list = order],
                       DeleteDataset_copy(dd, C_OrderAppend(dd.clauses, order)))

Delete_OrderPrepend(i) ==
    \E order \in AppendLists :
        LET dd == heap[i]
        IN  /\ Receiver(i, "delete")
            /\ Returns(i, "OrderPrepend", [Info EXCEPT !.list = order],
                       DeleteDataset_copy(dd, C_OrderPrepend(dd.clauses, order)))

Delete_ClearOrder(i) ==
    LET dd == heap[i]
    IN  /\ Receiver(i, "delete")
        /\ Returns(i, "ClearOrder", Info,
                   DeleteDataset_copy(dd, C_ClearOrder(dd.clauses)))

\* variant: a limit of zero is stored like any other
Delete_Limit_NoZero(i) ==
    \E limit \in Limits :
        LET dd == heap[i]
        IN  /\ Receiver(i, "delete")
            /\ Returns(i, "Limit", [Info EXCEPT !.n = limit],
                       DeleteDataset_copy(dd, C_SetLimit(dd.clauses, UintLimit(limit))))

Delete_Limit(i) ==
    \E limit \in Limits :
        LET dd == heap[i]
        IN  /\ Receiver(i, "delete")
            /\ Returns(i, "Limit", [Info EXCEPT !.n = limit],
                       IF limit > 0 THEN DeleteDataset_copy(dd, C_SetLimit(dd.clauses, UintLimit(limit)))
                       ELSE DeleteDataset_copy(dd, C_ClearLimit(dd.clauses)))

Delete_LimitAll(i) ==
    LET dd == heap[i]
    IN  /\ Receiver(i, "delete")
        /\ Returns(i, "LimitAll", Info,
                   DeleteDataset_copy(dd, C_SetLimit(dd.clauses, LiteralAll)))

Delete_ClearLimit(i) ==
    LET dd == heap[i]
    IN  /\ Receiver(i, "delete")
        /\ Returns(i, "ClearLimit", Info,
                   DeleteDataset_copy(dd, C_ClearLimit(dd.clauses)))

Delete_Returning(i) ==
    \E returning \in {<<"a", "b">>} :
        LET dd == heap[i]
        IN  /\ Receiver(i, "delete")
            /\ Returns(i, "Returning", [Info EXCEPT !.list = returning],
                       DeleteDataset_copy(dd, C_SetReturning(dd.clauses, NewColumnListExpression(returning))))

----------------------------------------------------------------------------
(* The client: it holds at most MaxObjs datasets, any of which may receive  *)
(* the next call; it builds while it has room for the result, and renders  *)
(* whatever it holds.                                                      *)

Holders == IF Len(heap) < MaxObjs THEN DOMAIN heap ELSE {}

Next ==
    \/ \E i \in Holders :
          \/ WithDialect(i) \/ SetDialect(i) \/ Prepared(i) \/ SetError(i)
          \/ Truncate_Table(i) \/ Truncate_Cascade(i) \/ Truncate_NoCascade(i)
          \/ Truncate_Restrict(i) \/ Truncate_NoRestrict(i) \/ Truncate_Identity(i)
          \/ Insert_With(i) \/ Insert_WithRecursive(i) \/ Insert_Into(i)
          \/ Insert_Cols(i) \/ Insert_ClearCols(i) \/ Insert_ColsAppend(i)
          \/ Insert_FromQuery(i) \/ Insert_Vals(i) \/ Insert_ClearVals(i)
          \/ Insert_Rows(i) \/ Insert_ClearRows(i) \/ Insert_Returning(i)
          \/ Insert_OnConflict(i) \/ Insert_ClearOnConflict(i) \/ Insert_As(i)
          \/ Update_With(i) \/ Update_WithRecursive(i) \/ Update_Table(i)
          \/ Update_Set(i) \/ Update_From(i) \/ Update_Where(i) \/ Update_ClearWhere(i)
          \/ Update_Order(i) \/ Update_OrderAppend(i) \/ Update_OrderPrepend(i)
          \/ Update_ClearOrder(i) \/ Update_Limit(i) \/ Update_LimitAll(i)
          \/ Update_ClearLimit(i) \/ Update_Returning(i)
          \/ Delete_With(i) \/ Delete_WithRecursive(i) \/ Delete_From(i)
          \/ Delete_Where(i) \/ Delete_ClearWhere(i)
          \/ Delete_Order(i) \/ Delete_OrderAppend(i) \/ Delete_OrderPrepend(i)
          \/ Delete_ClearOrder(i) \/ Delete_Limit(i) \/ Delete_LimitAll(i)
          \/ Delete_ClearLimit(i) \/ Delete_Returning(i)
    \/ \E i \in DOMAIN heap : ToSQL(i)

Spec == Init /\ [][Next]_vars

----------------------------------------------------------------------------
(* The fluent client: a constructor of the package, then up to MaxCalls    *)
(* clause mutators, each called on the result of the one before.           *)

InitChain == \E kind \in {"insert", "update", "delete"} : InitWith(kind, "default")

Newest == IF Len(heap) <= MaxCalls THEN {Len(heap)} ELSE {}

NextChain ==
    \E i \in Newest :
        \/ Insert_With(i) \/ Insert_WithRecursive(i)
        \/ Insert_Cols(i) \/ Insert_ClearCols(i) \/ Insert_ColsAppend(i)
        \/ Insert_Vals(i) \/ Insert_ClearVals(i)
        \/ Insert_Rows(i) \/ Insert_ClearRows(i)
        \/ Insert_OnConflict(i) \/ Insert_ClearOnConflict(i)
        \/ Update_With(i) \/ Update_WithRecursive(i)
        \/ Update_Where(i) \/ Update_ClearWhere(i)
        \/ Update_Order(i) \/ Update_OrderAppend(i) \/ Update_OrderPrepend(i)
        \/ Update_ClearOrder(i) \/ Update_Limit(i) \/ Update_LimitAll(i)
        \/ Update_ClearLimit(i)
        \/ Delete_With(i) \/ Delete_WithRecursive(i)
        \/ Delete_Where(i) \/ Delete_ClearWhere(i)
        \/ Delete_Order(i) \/ Delete_OrderAppend(i) \/ Delete_OrderPrepend(i)
        \/ Delete_ClearOrder(i) \/ Delete_Limit(i) \/ Delete_LimitAll(i)
        \/ Delete_ClearLimit(i)

SpecChain == InitChain /\ [][NextChain]_vars

----------------------------------------------------------------------------
(* The fluent client of a TRUNCATE: Truncate("t"), then up to MaxCalls     *)
(* option and table mutators, each called on the result of the one before. *)

InitTruncate == InitWith("truncate", "default")

NextTruncate ==
    \E i \in Newest :
        \/ Truncate_Table(i) \/ Truncate_Cascade(i) \/ Truncate_NoCascade(i)
        \/ Truncate_Restrict(i) \/ Truncate_NoRestrict(i) \/ Truncate_Identity(i)

SpecTruncate == InitTruncate /\ [][NextTruncate]_vars

----------------------------------------------------------------------------
(* The client of INSERT ... SELECT: it starts from an insert of any        *)
(* registered dialect and makes up to MaxCalls calls that set the dialect  *)
(* or the rows, each on the result of the one before, passing either of    *)
(* the two SelectDatasets as row source; it renders any insert it made.    *)

InitNest == \E d \in RegisteredDialects : InitWith("insert", d)

NextNest ==
    \/ \E i \in Newest :
          \/ WithDialect(i) \/ SetDialect(i) \/ Insert_FromQuery(i)
          \/ Insert_Rows(i) \/ Insert_Vals(i)
    \/ \E i \in DOMAIN heap : ToSQL(i)

SpecNest == InitNest /\ [][NextNest]_vars

----------------------------------------------------------------------------
(* Two goroutines share the dataset b behind pointer 1 and use it without  *)
(* synchronization: each reads it through its getters, derives children    *)
(* from it, renders, and calls SetError on it.  SetError tests and assigns *)
(* the err field of b in two steps; a read or a write of err that overlaps *)
(* another goroutine's write is a data race, and may yield a torn value.   *)

InitShared == \E kind \in {"insert", "delete"} : InitWith(kind, "default")

\* an error value that no caller gave: the outcome of a torn read or write
TornErr == "torn"

Racing(g) == \E h \in Threads \ {g} : threads[h].pc = "write"

\* GetClauses(), Dialect(), IsPrepared() and Error() of a dataset
Observed(ds) ==
    [clauses |-> ds.clauses, dialect |-> ds.dialect,
     isPrepared |-> ds.isPrepared, err |-> ds.err]

\* goroutine g reads b through the getters
Observe(g) ==
    /\ threads[g].pc = "idle"
    /\ \E e \in {heap[1].err} \cup (IF Racing(g) THEN {TornErr} ELSE {}) :
            threads' = [threads EXCEPT
                          ![g].seen = Some([Observed(heap[1]) EXCEPT !.err = e])]
    /\ UNCHANGED <<heap, selects, first, last>>

\* SetError, first step: if td.err == nil
SetError_Test(g) ==
    \E err \in Errs :
        /\ threads[g].pc = "idle"
        /\ threads' = [threads EXCEPT
                         ![g] = IF heap[1].err = NoErr
                                THEN [pc |-> "write", arg |-> err, seen |-> None]
                                ELSE [pc |-> "idle", arg |-> NoErr, seen |-> None]]
        /\ last' = IF heap[1].err = NoErr THEN last
                   ELSE [Called(1, "SetError", [Info EXCEPT !.err = err]) EXCEPT !.result = 1]
        /\ UNCHANGED <<heap, selects, first>>

\* SetError, second step: td.err = err; return td
SetError_Assign(g) ==
    /\ threads[g].pc = "write"
    /\ \E e \in {threads[g].arg} \cup (IF Racing(g) THEN {TornErr} ELSE {}) :
            heap' = [heap EXCEPT ![1].err = e]
    /\ first' = [first EXCEPT ![1] = IF @ = NoErr THEN threads[g].arg ELSE @]
    /\ last' = [Called(1, "SetError", [Info EXCEPT !.err = threads[g].arg])
                   EXCEPT !.result = 1]
    /\ threads' = [threads EXCEPT ![g] = Idle]
    /\ UNCHANGED selects

\* either goroutine derives a child from b while few are held; the copy is
\* made in one step
Sharers == IF Len(heap) < MaxObjs THEN {1} ELSE {}

NextShared ==
    \/ \E g \in Threads : Observe(g) \/ SetError_Test(g) \/ SetError_Assign(g)
    \/ \E i \in Sharers :
          \/ WithDialect(i) \/ Prepared(i) \/ Insert_FromQuery(i) \/ Delete_Where(i)
    \/ \E i \in DOMAIN heap : ToSQL(i)

SpecShared == InitShared /\ [][NextShared]_vars

----------------------------------------------------------------------------
(* The client of the terminal operations: it starts from a dataset of the  *)
(* package or of a database, derives datasets that carry a sticky error, a *)
(* prepared flag, a filter or a RETURNING list while it has room for them, *)
(* and calls the terminal operations on whatever it holds.                 *)

InitTerminal ==
    \E kind \in Kinds, d \in {"default", "mysql"}, qf \in {NilFactory, DbFactory} :
        /\ threads = [g \in Threads |-> Idle]
        /\ heap = <<[Construct(kind, d) EXCEPT !.queryFactory = qf]>>
        /\ selects = InitSelects
        /\ first = <<NoErr>>
        /\ last = NoCall(Construct(kind, d))

NextTerminal ==
    \/ \E i \in Holders :
          \/ SetError(i) \/ Prepared(i)
          \/ Insert_FromQuery(i) \/ Insert_Returning(i) \/ Update_Returning(i)
          \/ Delete_Where(i) \/ Delete_Returning(i)
    \/ \E i \in DOMAIN heap :
          \/ ToSQL(i) \/ MustToSQL(i) \/ AppendSQL(i) \/ Executor(i)

SpecTerminal == InitTerminal /\ [][NextTerminal]_vars

----------------------------------------------------------------------------
(* Properties *)

Mutators ==
    {"WithDialect", "SetDialect", "Prepared", "SetError", "Table", "Cascade",
     "NoCascade", "Restrict", "NoRestrict", "Identity", "With", "WithRecursive",
     "Into", "Cols", "ClearCols", "ColsAppend", "FromQuery", "Vals", "ClearVals",
     "Rows", "ClearRows", "Returning", "OnConflict", "ClearOnConflict", "As",
     "Set", "From", "Where", "ClearWhere", "Order", "OrderAppend", "OrderPrepend",
     "ClearOrder", "Limit", "LimitAll", "ClearLimit"}

MutatorReturned == last.op \in Mutators /\ last.panic = NoErr
MutatorPanicked == last.op \in Mutators /\ last.panic # NoErr

\* the result of rendering with a sticky error: the error and no text
ErrorOnly(e) == [sql |-> <<>>, args |-> <<>>, err |-> e]

\* C1: a mutator call b.m(x) returns a new value and leaves b unchanged:
\* b.Error() and b.ToSQL() give the same result after the call as before it.
C1_ReceiverUnchanged ==
    MutatorReturned =>
        /\ last.result # last.recv
        /\ ErrorOf(heap[last.recv]) = ErrorOf(last.before)
        /\ ToSQLOf(heap[last.recv], selects) = last.sqlBefore

\* C2: first error wins: Error() of every dataset is the first non-nil error
\* that was given to SetError on its derivation chain, and a SetError on a
\* dataset that already carries an error leaves that error in place.
C2_FirstErrorWins ==
    /\ \A i \in DOMAIN heap : ErrorOf(heap[i]) = first[i]
    /\ (last.op = "SetError" /\ ErrorOf(last.before) # NoErr) =>
            ErrorOf(heap[last.result]) = ErrorOf(last.before)
    /\ (last.op = "SetError" /\ ErrorOf(last.before) = NoErr) =>
            ErrorOf(heap[last.result]) = last.err

C2_Witness ==
    /\ last.op = "SetError"
    /\ last.err \in Errs
    /\ ErrorOf(last.before) \in Errs
    /\ last.err # ErrorOf(last.before)

\* C3: sticky propagation: when b.Error() is non-nil, b.m(x).Error() equals
\* b.Error() for every mutator m, and b.m(x).ToSQL() returns that error and
\* no SQL text.
C3_StickyPropagation ==
    (MutatorReturned /\ ErrorOf(last.before) # NoErr) =>
        /\ ErrorOf(heap[last.result]) = ErrorOf(last.before)
        /\ ToSQLOf(heap[last.result], selects) = ErrorOnly(ErrorOf(last.before))

C3_Witness ==
    /\ MutatorReturned
    /\ last.op # "SetError"
    /\ last.result # last.recv
    /\ ErrorOf(last.before) # NoErr

RenderOf(ds, buf, sels) ==
    CASE ds.kind = "truncate" -> ToTruncateSQL(ds.dialect, buf, ds.clauses)
      [] ds.kind = "insert"   -> ToInsertSQL(ds.dialect, buf, ds.clauses, sels)
      [] ds.kind = "update"   -> ToUpdateSQL(ds.dialect, buf, ds.clauses)
      [] ds.kind = "delete"   -> ToDeleteSQL(ds.dialect, buf, ds.clauses)

\* C4: ToSQL on a dataset with a sticky error returns that error and no text
\* and never invokes the dialect renderer; without a sticky error it invokes
\* the renderer of the dataset's kind and dialect exactly once, on a fresh
\* SQLBuilder made with the dataset's prepared flag, and returns what that
\* SQLBuilder holds.
C4_ToSQL ==
    last.op = "ToSQL" =>
        LET b == heap[last.recv]
        IN  IF ErrorOf(b) # NoErr
            THEN /\ last.out = ErrorOnly(ErrorOf(b))
                 /\ last.sb.calls = <<>>
            ELSE /\ last.sb.calls = <<[dialect |-> b.dialect, kind |-> b.kind]>>
                 /\ last.sb = RenderOf(b, NewSQLBuilder(PreparedBool(b.isPrepared)), selects)
                 /\ last.out.err = last.sb.err
                 /\ last.sb.err = NoErr =>
                        last.out.sql = last.sb.buf /\ last.out.args = last.sb.args

C4_Witness ==
    /\ last.op = "ToSQL"
    /\ ErrorOf(heap[last.recv]) = NoErr
    /\ last.sb.isPrepared
    /\ Len(last.sb.calls) = 1
    /\ last.out.sql # <<>>

\* C5: FromQuery with a SelectDataset of dialect Q on an InsertDataset of
\* dialect P panics with the dialect-incompatibility error when Q is not the
\* default and differs from P, recording nothing on the receiver; when Q is
\* the default it succeeds and the SelectDataset's dialect becomes P.
C5_DialectNesting ==
    (last.op = "FromQuery" /\ last.sel # 0) =>
        LET P == last.before.dialect
            Q == last.selDialect
        IN  /\ (Q # GetDialect("default") /\ Q # P) =>
                    /\ last.panic = ErrIncompatibleDialects
                    /\ last.result = 0
                    /\ heap[last.recv] = last.before
                    /\ selects[last.sel].dialect = Q
            /\ Q = GetDialect("default") =>
                    /\ last.panic = NoErr
                    /\ last.result \in DOMAIN heap
                    /\ heap[last.result].clauses.from = Some(last.sel)
                    /\ selects[last.sel].dialect = P

C5_Witness ==
    /\ last.op = "FromQuery"
    /\ last.sel # 0
    /\ last.selDialect # GetDialect("default")
    /\ last.before.dialect # GetDialect("default")
    /\ last.before.dialect # last.selDialect
    /\ last.panic = ErrIncompatibleDialects

TableCall ==
    \/ last.op = "Into" /\ last.before.kind = "insert"
    \/ last.op = "Table" /\ last.before.kind = "update"
    \/ last.op = "From" /\ last.before.kind = "delete"

\* the argument kinds each table method takes, and its error for the others
TableAccepts ==
    IF last.before.kind = "delete" THEN {"string", "identifier"}
    ELSE {"string", "identifier", "literal"}

TableError ==
    CASE last.before.kind = "insert" -> ErrUnsupportedIntoType
      [] last.before.kind = "update" -> ErrUnsupportedUpdateTableType
      [] last.before.kind = "delete" -> ErrBadFromArgument

TableOf(ds) ==
    CASE ds.kind = "insert" -> ds.clauses.into
      [] ds.kind = "update" -> ds.clauses.table
      [] ds.kind = "delete" -> ds.clauses.from

ImmediateFailure ==
    \/ TableCall /\ last.tab.kind \notin TableAccepts
    \/ /\ last.op = "FromQuery"
       /\ last.sel # 0
       /\ last.selDialect # GetDialect("default")
       /\ last.selDialect # last.before.dialect

\* C7: after any sequence of calls, a mutator call panics exactly when its
\* argument is of an invalid kind or its row source has a conflicting
\* dialect, whether or not the receiver carries a sticky error; a sticky
\* error alone never aborts a mutator and is reported by ToSQL.
C7_FailureTiming ==
    /\ last.op \in Mutators => (last.panic # NoErr <=> ImmediateFailure)
    /\ (last.op \in Mutators /\ ~ImmediateFailure) => last.result \in DOMAIN heap
    /\ (last.op = "ToSQL" /\ ErrorOf(heap[last.recv]) # NoErr) =>
            last.out.err = ErrorOf(heap[last.recv])

C7_Witness ==
    /\ MutatorPanicked
    /\ ErrorOf(last.before) # NoErr
    /\ last.before.kind = "update"

\* token sequence sub occurs in s as a contiguous run
Contains(s, sub) ==
    \E j \in 0..(Len(s) - Len(sub)) : SubSeq(s, j + 1, j + Len(sub)) = sub

Has(s, tok) == \E j \in DOMAIN s : s[j] = tok

\* the tokens that follow one of the keywords kws in s, in order
RECURSIVE NamesAfter(_, _)
NamesAfter(s, kws) ==
    IF Len(s) < 2 THEN <<>>
    ELSE IF Head(s) \in kws THEN <<s[2]>> \o NamesAfter(Tail(Tail(s)), kws)
    ELSE NamesAfter(Tail(s), kws)

\* an optional ordered field as a sequence: absent reads as empty
Entries(opt) == IF IsSet(opt) THEN Val(opt) ELSE <<>>

RECURSIVE CteNamesOf(_)
CteNamesOf(ctes) ==
    IF ctes = <<>> THEN <<>> ELSE <<Head(ctes).name>> \o CteNamesOf(Tail(ctes))

\* C8: append order preserved: With and WithRecursive (insert, update,
\* delete), OrderAppend (update, delete), ColsAppend and Vals (insert) leave
\* the earlier entries of their field in place and add the new ones after
\* them in call order, so [a, b] then [c] gives [a, b, c] in the clause
\* record of the result and in what it renders.
C8_AppendOrder ==
    MutatorReturned =>
        LET old == last.before.clauses
            new == heap[last.result].clauses
            sql == ToSQLOf(heap[last.result], selects).sql
        IN  /\ last.op \in {"With", "WithRecursive"} =>
                /\ CteNamesOf(new.commonTables) = CteNamesOf(old.commonTables) \o last.list
                /\ SubSeq(new.commonTables, 1, Len(old.commonTables)) = old.commonTables
                /\ new.commonTables[Len(new.commonTables)].recursive = (last.op = "WithRecursive")
                /\ NamesAfter(sql, {"WITH", "WITH RECURSIVE"}) = CteNamesOf(new.commonTables)
            /\ last.op = "OrderAppend" =>
                /\ new.order = Some(Entries(old.order) \o last.list)
                /\ Contains(sql, <<"ORDER BY">> \o Entries(old.order) \o last.list)
            /\ last.op = "ColsAppend" =>
                /\ new.cols = Some(Entries(old.cols) \o last.list)
                /\ Contains(sql, <<"(">> \o Entries(old.cols) \o last.list \o <<")">>)
            /\ last.op = "Vals" =>
                /\ new.vals = old.vals \o last.list
                /\ (new.rows = <<>> /\ ~IsSet(new.from)) =>
                        Contains(sql, <<"VALUES">> \o old.vals \o last.list)

C8_Witness ==
    /\ last.op = "OrderAppend"
    /\ last.before.kind = "delete"
    /\ last.before.clauses.order = Some(<<"a", "b">>)
    /\ last.list = <<"c">>
    /\ heap[last.result].clauses.order = Some(<<"a", "b", "c">>)

ClearOps ==
    {"ClearWhere", "ClearOrder", "ClearLimit", "ClearCols", "ClearVals",
     "ClearRows", "ClearOnConflict"}

\* C9: clear resets: after ClearWhere, ClearOrder, ClearLimit (update,
\* delete), ClearCols, ClearVals, ClearRows, ClearOnConflict (insert) the
\* field of the returned dataset is absent whatever was set or appended
\* before, and the SQL it renders has no fragment of that clause.
C9_ClearResets ==
    (MutatorReturned /\ last.op \in ClearOps) =>
        LET c == heap[last.result].clauses
            out == ToSQLOf(heap[last.result], selects)
        IN  /\ out.err = NoErr
            /\ last.op = "ClearWhere" => c.where = None /\ ~Has(out.sql, "WHERE")
            /\ last.op = "ClearOrder" => c.order = None /\ ~Has(out.sql, "ORDER BY")
            /\ last.op = "ClearLimit" => c.limit = None /\ ~Has(out.sql, "LIMIT")
            /\ last.op = "ClearCols" => c.cols = None /\ ~Has(out.sql, "(")
            /\ last.op = "ClearVals" =>
                    c.vals = <<>> /\ (c.rows = <<>> => ~Has(out.sql, "VALUES"))
            /\ last.op = "ClearRows" =>
                    c.rows = <<>> /\ (c.vals = <<>> => ~Has(out.sql, "VALUES"))
            /\ last.op = "ClearOnConflict" =>
                    c.onConflict = None /\ ~Has(out.sql, "ON CONFLICT")

C9_Witness ==
    /\ last.op = "ClearWhere"
    /\ last.before.kind = "update"
    /\ Len(Entries(last.before.clauses.where)) > 1
    /\ Has(last.sqlBefore.sql, "WHERE")
    /\ ~Has(ToSQLOf(heap[last.result], selects).sql, "WHERE")

LimitOps == {"Limit", "LimitAll", "ClearLimit"}

\* C10: row limit on update and delete: Limit(n) with n > 0 sets the limit
\* to n; Limit(0) gives the dataset that ClearLimit gives, with no limit;
\* LimitAll sets the ALL sentinel; every other mutator keeps the limit of
\* its receiver, so the limit is always the one given by the last of these
\* calls.
C10_RowLimit ==
    (MutatorReturned /\ last.before.kind \in {"update", "delete"}) =>
        LET old == last.before.clauses
            new == heap[last.result].clauses
            sql == ToSQLOf(heap[last.result], selects).sql
        IN  /\ (last.op = "Limit" /\ last.n > 0) =>
                /\ new.limit = Some(UintLimit(last.n))
                /\ Contains(sql, <<"LIMIT", ToString(last.n)>>)
            /\ (last.op = "Limit" /\ last.n = 0) =>
                /\ new.limit = None
                /\ heap[last.result] = [last.before EXCEPT !.clauses.limit = None]
                /\ ~Has(sql, "LIMIT")
            /\ last.op = "LimitAll" =>
                /\ new.limit = Some(LiteralAll)
                /\ Contains(sql, <<"LIMIT", "ALL">>)
            /\ last.op = "ClearLimit" =>
                /\ new.limit = None
                /\ heap[last.result] = [last.before EXCEPT !.clauses.limit = None]
            /\ last.op \notin LimitOps => new.limit = old.limit

C10_Witness ==
    /\ last.op = "Limit"
    /\ last.n = 0
    /\ last.before.kind = "delete"
    /\ last.before.clauses.limit = Some(UintLimit(2))
    /\ heap[last.result].clauses.limit = None

\* a step that completes Cascade() and Identity(s), in either order, on the
\* dataset last.before: the result holds the clause record of last.before
\* with Cascade true and Identity s, and renders table, CASCADE, identity
C11_Step ==
    (/\ last.op \in {"Cascade", "Identity"}
     /\ last'.op \in {"Cascade", "Identity"}
     /\ last'.op # last.op
     /\ last.result # 0
     /\ last'.recv = last.result
     /\ last'.result # 0) =>
        LET s == IF last.op = "Identity" THEN last.list[1] ELSE last'.list[1]
            root == last.before
            td == heap'[last'.result]
        IN  /\ td.clauses = [root.clauses EXCEPT !.options.Cascade = TRUE,
                                                 !.options.Identity = s]
            /\ ToSQLOf(td, selects').sql =
                    <<"TRUNCATE">> \o Entries(root.clauses.tables)
                                  \o <<"CASCADE", s, "IDENTITY">>

\* C11: truncate options are independent of call order: b.Cascade().Identity(s)
\* and b.Identity(s).Cascade() hold the same clause record (the tables of b,
\* Cascade true, Identity s) and render the same SQL, with the table name,
\* CASCADE and the identity fragment in one fixed order.
C11_TruncateOrder == [][C11_Step]_vars

C11_Witness ==
    /\ last.op = "Cascade"
    /\ last.before.kind = "truncate"
    /\ last.before.clauses.options.Identity = "RESTART"
    /\ ~last.before.clauses.options.Cascade
    /\ ToSQLOf(heap[last.result], selects).sql =
            <<"TRUNCATE", "t", "CASCADE", "RESTART", "IDENTITY">>

\* the statement renders a nested query as its row source
RendersQuery(sql) == Has(sql, "SELECT") \/ Has(sql, "SUBQUERY")

\* C12: row-source exclusivity on Insert: of the literal rows (Rows, Vals)
\* and the nested query (FromQuery), the one that was set by the most recent
\* call is the one rendered, and the other one is not rendered.
C12_RowSourceExclusive ==
    (MutatorReturned /\ last.before.kind = "insert") =>
        LET sql == ToSQLOf(heap[last.result], selects).sql
        IN  /\ (last.op \in {"Rows", "Vals"} /\ last.list # <<>>) =>
                    Has(sql, "VALUES") /\ ~RendersQuery(sql)
            /\ last.op = "FromQuery" =>
                    RendersQuery(sql) /\ ~Has(sql, "VALUES")

\* C13: a dataset shared by two goroutines is safe without synchronization:
\* what a goroutine has read from b (clause record, dialect, prepared flag,
\* sticky error; a read that was not torn) is still what b holds for as long
\* as that goroutine makes no call on b itself, whatever the other goroutine
\* calls in between.
C13_SharedUnchanged ==
    \A g \in Threads :
        (IsSet(threads[g].seen) /\ Val(threads[g].seen).err # TornErr) =>
            Val(threads[g].seen) = Observed(heap[1])

TerminalOps == {"ToSQL", "MustToSQL", "AppendSQL", "Executor"}

\* a step that is a terminal operation: no dataset and no SelectDataset
\* changes; ToSQL, MustToSQL and Executor work on a SQLBuilder that holds
\* this one render and nothing else; and what ToSQL returns is what ToSQL
\* returned on the same dataset before the terminal operation that preceded
C14_Step ==
    last'.op \in TerminalOps =>
        /\ heap' = heap /\ selects' = selects /\ first' = first
        /\ Observed(heap'[last'.recv]) = Observed(last'.before)
        /\ last'.op \in {"ToSQL", "MustToSQL", "Executor"} =>
                \/ last'.op = "Executor" /\ last'.panic = ErrNilFactory
                \/ /\ last'.sb.isPrepared = PreparedBool(heap[last'.recv].isPrepared)
                   /\ Len(last'.sb.calls) <= 1
                   /\ last'.sb.err = NoErr => Len(last'.sb.calls) = 1
                   /\ SB_ToSQL(last'.sb) = last'.sqlBefore
        /\ (last'.op = "ToSQL" /\ last.op \in TerminalOps /\ last.recv = last'.recv) =>
                /\ last'.out = last.sqlBefore
                /\ last.op = "ToSQL" => last'.out = last.out

C15_MustToSQL ==
    last.op = "MustToSQL" =>
        LET r == ToSQLOf(heap[last.recv], selects)
        IN  /\ last.panic # NoErr <=> r.err # NoErr
            /\ last.panic = r.err
            /\ r.err = NoErr => last.out.sql = r.sql /\ last.out.args = r.args

C15_Witness ==
    /\ last.op = "MustToSQL"
    /\ heap[last.recv].err = NoErr
    /\ last.panic = ErrNoReturnSupport

\* the statement that embeds the dataset goes on: it closes the common table
\* expression, writes its own text and finishes
OuterResult(b) == SB_ToSQL(SB_Write(b, <<")", "SELECT", "x">>))

IsPrefix(s, t) == Len(s) <= Len(t) /\ SubSeq(t, 1, Len(s)) = s

\* AppendSQL without a sticky error: the renderer of the dataset's kind and
\* dialect is invoked once, on the supplied SQLBuilder
C16_Renders ==
    (last.op = "AppendSQL" /\ last.before.err = NoErr) =>
        /\ last.sb.calls = Append(last.given.calls,
                                  [dialect |-> last.before.dialect,
                                   kind |-> last.before.kind])
        /\ last.sb.isPrepared = last.given.isPrepared
        /\ IsPrefix(last.given.buf, last.sb.buf)
        /\ IsPrefix(last.given.args, last.sb.args)
        /\ last.given.err = NoErr => Len(last.sb.buf) > Len(last.given.buf)

\* C16 as stated: AppendSQL writes into the supplied SQLBuilder; with a
\* sticky error it records that error on the supplied SQLBuilder without
\* invoking the dialect, so that the embedding statement reports the error of
\* the embedded one; without one it invokes the dataset's renderer on the
\* supplied SQLBuilder.
C16_AppendSQL_Stated ==
    /\ C16_Renders
    /\ (last.op = "AppendSQL" /\ last.before.err # NoErr) =>
            /\ last.sb.calls = last.given.calls
            /\ last.sb.buf = last.given.buf /\ last.sb.args = last.given.args
            /\ last.sb.err = last.before.err
            /\ OuterResult(last.sb).err = last.before.err

\* C16: AppendSQL writes into the supplied SQLBuilder; with a sticky error it
\* passes that error to the supplied SQLBuilder without invoking the dialect,
\* and the SQLBuilder, which keeps the first error it was given, then holds
\* the dataset's error unless it held an earlier one: either way the
\* embedding statement reports an error and no text; without a sticky error
\* AppendSQL invokes the dataset's renderer on the supplied SQLBuilder.
C16_AppendSQL ==
    /\ C16_Renders
    /\ (last.op = "AppendSQL" /\ last.before.err # NoErr) =>
            /\ last.sb.calls = last.given.calls
            /\ last.sb.buf = last.given.buf /\ last.sb.args = last.given.args
            /\ last.sb.err = IF last.given.err = NoErr THEN last.before.err
                              ELSE last.given.err
            /\ OuterResult(last.sb) = ErrorOnly(last.sb.err)

C16_Witness ==
    /\ last.op = "AppendSQL"
    /\ last.before.err \in Errs
    /\ last.given.err = NoErr
    /\ last.given.buf # <<>>
    /\ OuterResult(last.sb) = ErrorOnly(last.before.err)

\* the SelectDataset that is the row source of ds, or 0 if it has none
SelectOf(ds) ==
    IF ds.kind = "insert" /\ IsSet(ds.clauses.from) THEN Val(ds.clauses.from) ELSE 0

\* C17: in every reachable InsertDataset whose row source is a SelectDataset,
\* the dialect of that SelectDataset is the dialect of the InsertDataset,
\* after any sequence of FromQuery, WithDialect, SetDialect and the other
\* mutators.
C17_OneDialect ==
    \A i \in DOMAIN heap :
        SelectOf(heap[i]) # 0 => selects[SelectOf(heap[i])].dialect = heap[i].dialect

\* the SelectDatasets whose dialect the caller never set
NeverSet == {s \in DOMAIN InitSelects : InitSelects[s].dialect = GetDialect("default")}

\* C18: a SelectDataset whose dialect the caller never set is accepted by
\* FromQuery of every InsertDataset, whatever that insert's dialect and
\* whichever inserts it was passed to before: the call does not panic, and
\* the inserts that already have it as row source still render it under
\* their own dialect.
C18_UnsetSelectAccepted ==
    (last.op = "FromQuery" /\ last.sel \in NeverSet) =>
        /\ last.panic = NoErr
        /\ \A i \in DOMAIN heap :
              SelectOf(heap[i]) = last.sel =>
                  Contains(ToSQLOf(heap[i], selects).sql, <<"SELECT", heap[i].dialect>>)

====
